---- MODULE Spec2Model ----
(***************************************************************************)
(* Arvos SDK: the BLE frame reassembler (examples/ble_receiver.py) and the *)
(* protocol servers of python/arvos/servers (base, HTTP, gRPC, MCAP, MCAP  *)
(* over HTTP, MQTT).                                                       *)
(***************************************************************************)
EXTENDS Integers, Sequences, FiniteSets, TLC

VARIABLES
    \* ---- BLEBuffer (examples/ble_receiver.py) ----
    buffer,        \* BLEBuffer.buffer, the bytes retained between feed calls
    stream,        \* history: every byte passed to feed so far, in order
    messages,      \* history: every payload returned by feed so far, in call order
    lastChunk,     \* history: the chunk of the last feed call
    lastRet,       \* history: the list returned by the last feed call
    lastBuf,       \* history: the retained buffer right before the last feed call
    midHeader,     \* history: some feed call returned with 1..3 bytes retained
    sent,          \* the payloads the peer framed (SpecFrames), in order
    wire,          \* the peer's byte stream: the frames of sent, concatenated
    \* ---- BaseArvosServer (python/arvos/servers/base_server.py) ----
    running,            \* self.running
    bytes_received,     \* self.bytes_received
    messages_received,  \* self.messages_received
    connected_clients,  \* self.connected_clients
    on,                 \* the callback slots self.on_connect, self.on_imu, ...
    \* ---- the adapters ----
    parser,             \* the callback slots of the adapter's ArvosClient, or "absent"
    MCAP_AVAILABLE,     \* mcap_server.MCAP_AVAILABLE (set at import)
    started,            \* start() has been called on the adapter
    listening,          \* the adapter's listening resource is open
    stop_pc,            \* position of the stop() call in progress
    stops,              \* history: number of stop() calls
    resets,             \* history: number of reset_statistics() calls
    writer,             \* self.writer: "none", "started" or "finished"
    written,            \* history: the add_message calls on the writer
    conn,               \* per connection: position of its handler and its locals
    log,                \* history: the user callbacks invoked, in order
    units,              \* history: number of message units the adapter received
    unit_bytes,         \* history: total payload length of those units
    loopq,              \* the coroutines scheduled on the adapter's event loop
    pending_meta,       \* the parser's metadata awaiting its binary unit: the
                        \* connection it came from, 0 when there is none
    start_pc,           \* position of the start() call: "idle" before the call,
                        \* "waiting" while it is suspended, then how it ended
    msg,                \* the SensorMessage _protobuf_to_dict was last called with
    result,             \* the dictionary it returned
    finish_calls        \* history: number of finish() calls on self.writer

bleVars == <<buffer, stream, messages, lastChunk, lastRet, lastBuf, midHeader,
             sent, wire>>

srvVars == <<running, bytes_received, messages_received, connected_clients, on,
             parser, MCAP_AVAILABLE, started, listening, stop_pc, stops, resets,
             writer, written, conn, log, units, unit_bytes, loopq, pending_meta,
             start_pc, msg, result, finish_calls>>

vars == <<bleVars, srvVars>>

(***************************************************************************)
(* Bounds                                                                  *)
(***************************************************************************)
\* Total number of bytes fed to one BLEBuffer.
MaxStream == 9

\* Byte values the chunks are drawn from (a sample of 0..255).
ByteVals == {0, 1, 2}

\* Number of frames the peer sends, and the longest payload of a frame.
MaxFrames == 2
MaxPayloadLen == 2

\* Byte values of the payloads the peer frames.
PayloadVals == {0, 1}

\* The maximum frame length a deployment would configure (spec section 4.1).
MaxFrameLen == 2

\* Sequences over S of length 0..n.
SeqsUpTo(S, n) == UNION {[1..k -> S] : k \in 0..n}

(***************************************************************************)
(* BaseArvosServer: state after construction, callback slots, statistics   *)
(***************************************************************************)
\* Connections (WebSocket connections, gRPC streams, HTTP requests) per run.
MaxConns == 2
Conns == 1..MaxConns

\* Message units the adapter receives per run.
MaxUnits == 2

\* stop() calls and reset_statistics() calls per run.
MaxStops == 2
MaxResets == 1

\* The sensor kinds of the model (a sample of the eleven sensor slots).
SensorKinds == {"imu", "gps", "camera"}
SlotOf == [imu |-> "on_imu", gps |-> "on_gps", camera |-> "on_camera"]
SensorSlots == {SlotOf[k] : k \in SensorKinds}
Slots == {"on_connect", "on_disconnect", "on_message", "on_error"} \cup SensorSlots

\* What a slot holds: None, a plain function, or a coroutine function.
Styles == {"none", "sync", "async"}

\* A plain function and a coroutine function whose call raises an Exception.
RaisingStyles == {"sync_raises", "async_raises"}

\* asyncio.iscoroutinefunction(callback)
iscoroutinefunction(style) == style \in {"async", "async_raises"}

\* The call of the callback raises.
Raises(style) == style \in RaisingStyles

\* The message units of the model, each with its payload length in bytes.
\* A text unit is a JSON object with a sensorType, JSON that is no object,
\* or no JSON at all; a binary unit is an opaque payload.
TextUnit(j, k, n) == [type |-> "text", json |-> j, sensorType |-> k, size |-> n]
BinaryUnit(n) == [type |-> "binary", json |-> "", sensorType |-> "", size |-> n]
NoUnit == [type |-> "none", json |-> "", sensorType |-> "", size |-> 0]
SampleUnits ==
    { TextUnit("object", "imu", 3), TextUnit("object", "gps", 2),
      TextUnit("object", "bogus", 2), TextUnit("nonobject", "", 1),
      TextUnit("malformed", "", 1), BinaryUnit(2) }

ProtoUnit(f, n) == [type |-> "proto", json |-> "", sensorType |-> f, size |-> n]

\* A SensorMessage: the payload field of the oneof that is set ("" when none
\* is), timestamp_ns and the payload. No message and no dictionary yet:
SensorMessage(f, t, b) == [sensorType |-> f, timestamp_ns |-> t, body |-> b]
NoMessage == SensorMessage("", 0, <<>>)
NoResult == [timestampNs |-> 0, sensorType |-> ""]

\* One user callback invocation, as recorded in log: the slot, the connection,
\* the index of the unit on its connection (0 for connect and disconnect) and
\* the thread it ran on ("loop": the adapter's event loop; "worker": another).
Call(slot, c, k, t) == [cb |-> slot, conn |-> c, unit |-> k, thread |-> t]

\* The log after the event loop has called the callback in slot through
\* _invoke_callback: a None slot is skipped; an Exception the callback raises
\* is caught and printed, and nothing else is called.
Called(lg, slot, c, k) ==
    IF on[slot] = "none" THEN lg ELSE Append(lg, Call(slot, c, k, "loop"))

\* A connection handler before it runs: its position, whether the transport
\* has ended the connection, the number and the kinds of the units received
\* on it, the thread's register and the unit being processed.
\* For an HTTP request also its method and path and the status of the response,
\* and for a binary unit the connection whose metadata the parser paired it
\* with (0: none, the record has default metadata).
IdleConn == [pc |-> "idle", eof |-> FALSE, recv |-> 0, hist |-> <<>>, tmp |-> 0,
             cur |-> NoUnit, method |-> "", path |-> "", status |-> 0, meta |-> 0]

\* BaseArvosServer.__init__
BaseInit ==
    /\ running = FALSE
    /\ bytes_received = 0
    /\ messages_received = 0
    /\ connected_clients = 0
    /\ on = [s \in Slots |-> "none"]

\* The fields the adapters add in __init__, and the history variables.
AdapterInit ==
    /\ started = FALSE
    /\ listening = FALSE
    /\ stop_pc = "idle"
    /\ stops = 0
    /\ resets = 0
    /\ writer = "none"
    /\ written = <<>>
    /\ conn = [c \in Conns |-> IdleConn]
    /\ log = <<>>
    /\ units = 0
    /\ unit_bytes = 0
    /\ loopq = <<>>
    /\ pending_meta = 0
    /\ start_pc = "idle"
    /\ msg = NoMessage
    /\ result = NoResult
    /\ finish_calls = 0

\* A constructed server that is never started (the state of the servers while
\* only the BLE receiver runs).
ServerInit ==
    /\ BaseInit
    /\ AdapterInit
    /\ parser = "absent"
    /\ MCAP_AVAILABLE = TRUE

\* User code assigns a callback slot (server.on_imu = f) before start().
AssignCallback(slot, style) ==
    /\ ~started
    /\ on' = [on EXCEPT ![slot] = style]
    /\ UNCHANGED <<running, bytes_received, messages_received, connected_clients,
                   parser, MCAP_AVAILABLE, started, listening, stop_pc, stops,
                   resets, writer, written, conn, log, units, unit_bytes>>
    /\ UNCHANGED <<bleVars, finish_calls, msg, result, loopq, pending_meta, start_pc>>

\* BaseArvosServer.reset_statistics()
reset_statistics ==
    /\ resets < MaxResets
    /\ resets' = resets + 1
    /\ bytes_received' = 0
    /\ messages_received' = 0
    /\ UNCHANGED <<running, connected_clients, on, parser, MCAP_AVAILABLE, started,
                   listening, stop_pc, stops, writer, written, conn, log, units,
                   unit_bytes>>
    /\ UNCHANGED <<bleVars, finish_calls, msg, result, loopq, pending_meta, start_pc>>

(***************************************************************************)
(* BLEBuffer                                                               *)
(***************************************************************************)
\* A variant of the header decoding: most significant byte first.
from_bytes_big(b) == b[4] + 256 * b[3] + 65536 * b[2] + 16777216 * b[1]

\* int.from_bytes(self.buffer[:4], "little")
from_bytes_little(b) == b[1] + 256 * b[2] + 65536 * b[3] + 16777216 * b[4]

\* The while loop of feed: <<retained buffer, payloads extracted>>.
RECURSIVE feed_loop(_, _)
feed_loop(buf, msgs) ==
    IF Len(buf) < 4 THEN <<buf, msgs>>
    ELSE LET length == from_bytes_little(SubSeq(buf, 1, 4)) IN
         IF Len(buf) < 4 + length THEN <<buf, msgs>>
         ELSE feed_loop(SubSeq(buf, 4 + length + 1, Len(buf)),
                        Append(msgs, SubSeq(buf, 5, 4 + length)))

\* A variant of feed that extracts at most one payload per call (if for while).
feed_single(buf, chunk) ==
    LET b == buf \o chunk IN
    IF Len(b) < 4 THEN <<b, <<>>>>
    ELSE LET length == from_bytes_little(SubSeq(b, 1, 4)) IN
         IF Len(b) < 4 + length THEN <<b, <<>>>>
         ELSE <<SubSeq(b, 4 + length + 1, Len(b)), <<SubSeq(b, 5, 4 + length)>>>>

\* A variant of feed whose loop stops when the buffer holds exactly one whole
\* frame (<= for < in the length test).
RECURSIVE feed_loop_short(_, _)
feed_loop_short(buf, msgs) ==
    IF Len(buf) < 4 THEN <<buf, msgs>>
    ELSE LET length == from_bytes_little(SubSeq(buf, 1, 4)) IN
         IF Len(buf) <= 4 + length THEN <<buf, msgs>>
         ELSE feed_loop_short(SubSeq(buf, 4 + length + 1, Len(buf)),
                              Append(msgs, SubSeq(buf, 5, 4 + length)))

feed_short(buf, chunk) == feed_loop_short(buf \o chunk, <<>>)

\* BLEBuffer.feed(chunk) on a buffer holding buf: <<buffer after, returned list>>.
feed(buf, chunk) == feed_loop(buf \o chunk, <<>>)

\* One call of BLEBuffer.feed with a chunk of any length (the empty one included).
Feed(chunk) ==
    /\ LET r == feed(buffer, chunk) IN
       /\ buffer' = r[1]
       /\ lastRet' = r[2]
       /\ messages' = messages \o r[2]
       /\ midHeader' = (midHeader \/ Len(r[1]) \in 1..3)
    /\ stream' = stream \o chunk
    /\ lastChunk' = chunk
    /\ lastBuf' = buffer
    /\ UNCHANGED <<sent, wire>>
    /\ UNCHANGED srvVars

BLEInit ==
    /\ buffer = <<>>
    /\ stream = <<>>
    /\ messages = <<>>
    /\ lastChunk = <<>>
    /\ lastRet = <<>>
    /\ lastBuf = <<>>
    /\ midHeader = FALSE
    /\ sent = <<>>
    /\ wire = <<>>

InitBLE == BLEInit /\ ServerInit

\* The receiver is fed arbitrary bytes in arbitrary chunks.
NextBLE == \E chunk \in SeqsUpTo(ByteVals, MaxStream - Len(stream)) : Feed(chunk)

SpecBLE == InitBLE /\ [][NextBLE]_vars

\* n.to_bytes(4, "little"): the header the peer puts before a payload of n bytes.
to_bytes_little(n) ==
    <<n % 256, (n \div 256) % 256, (n \div 65536) % 256, (n \div 16777216) % 256>>

\* The frames of the payloads ps, concatenated.
RECURSIVE Frames(_)
Frames(ps) ==
    IF ps = <<>> THEN <<>>
    ELSE to_bytes_little(Len(Head(ps))) \o Head(ps) \o Frames(Tail(ps))

\* The peer frames up to MaxFrames payloads; the link delivers its bytes in order.
InitFrames ==
    /\ buffer = <<>>
    /\ stream = <<>>
    /\ messages = <<>>
    /\ lastChunk = <<>>
    /\ lastRet = <<>>
    /\ lastBuf = <<>>
    /\ midHeader = FALSE
    /\ sent \in SeqsUpTo(SeqsUpTo(PayloadVals, MaxPayloadLen), MaxFrames)
    /\ wire = Frames(sent)
    /\ ServerInit

\* The link hands the next n bytes of the wire to feed, cut at any byte boundary.
NextFrames ==
    \E n \in 0..(Len(wire) - Len(stream)) :
        Feed(SubSeq(wire, Len(stream) + 1, Len(stream) + n))

SpecFrames == InitFrames /\ [][NextFrames]_vars

(***************************************************************************)
(* MCAPStreamServer (python/arvos/servers/mcap_server.py)                  *)
(***************************************************************************)
\* The channels _setup_mcap_channels registers.
channels == {"imu", "gps", "pose"}

\* MCAPStreamServer.__init__: no parser is created. The module is imported
\* with or without the mcap library.
MCAPInit ==
    /\ BaseInit
    /\ AdapterInit
    /\ parser = "absent"
    /\ MCAP_AVAILABLE \in BOOLEAN

\* MCAPStreamServer.start() up to the point where it waits: the writer is
\* started when the mcap library is there (else _start_basic_server runs),
\* and the WebSocket server listens.
MCAPStart ==
    /\ ~started
    /\ start_pc' = "waiting"
    /\ started' = TRUE
    /\ writer' = IF MCAP_AVAILABLE THEN "started" ELSE writer
    /\ running' = TRUE
    /\ listening' = TRUE
    /\ UNCHANGED <<bytes_received, messages_received, connected_clients, on, parser,
                   MCAP_AVAILABLE, stop_pc, stops, resets, written, conn, log, units,
                   unit_bytes>>
    /\ UNCHANGED <<bleVars, finish_calls, msg, result, loopq, pending_meta>>

\* The finally clause of _handle_client on connection c, whose locals are rec:
\* the disconnect callback is awaited, then connected_clients is decremented.
\* An async callback may suspend; the decrement then waits for it.
MCAPFinally(c, rec) ==
    /\ log' = Called(log, "on_disconnect", c, 0)
    /\ IF iscoroutinefunction(on["on_disconnect"])
       THEN /\ conn' = [conn EXCEPT ![c] = [rec EXCEPT !.pc = "await_disconnect"]]
            /\ UNCHANGED connected_clients
       ELSE /\ conn' = [conn EXCEPT ![c] = [rec EXCEPT !.pc = "closed"]]
            /\ connected_clients' = connected_clients - 1

\* A client connects: _handle_client awaits the connect callback, then counts
\* the client and starts reading.
MCAPAccept(c) ==
    /\ listening
    /\ conn[c].pc = "idle"
    /\ log' = Called(log, "on_connect", c, 0)
    /\ IF iscoroutinefunction(on["on_connect"])
       THEN /\ conn' = [conn EXCEPT ![c].pc = "await_connect"]
            /\ UNCHANGED connected_clients
       ELSE /\ conn' = [conn EXCEPT ![c].pc = "open"]
            /\ connected_clients' = connected_clients + 1
    /\ UNCHANGED <<running, bytes_received, messages_received, on, parser,
                   MCAP_AVAILABLE, started, listening, stop_pc, stops, resets, writer,
                   written, units, unit_bytes>>
    /\ UNCHANGED <<bleVars, finish_calls, msg, result, loopq, pending_meta, start_pc>>

\* The awaited async connect callback returns.
MCAPConnected(c) ==
    /\ conn[c].pc = "await_connect"
    /\ conn' = [conn EXCEPT ![c].pc = "open"]
    /\ connected_clients' = connected_clients + 1
    /\ UNCHANGED <<running, bytes_received, messages_received, on, parser,
                   MCAP_AVAILABLE, started, listening, stop_pc, stops, resets, writer,
                   written, log, units, unit_bytes>>
    /\ UNCHANGED <<bleVars, finish_calls, msg, result, loopq, pending_meta, start_pc>>

\* A str message is counted only once json.loads has accepted it; a bytes
\* message is always counted (only with the mcap library: the fallback
\* handler of _start_basic_server counts nothing).
MCAPCounts(u) ==
    /\ MCAP_AVAILABLE
    /\ (u.type = "binary" \/ u.json # "malformed")

\* One iteration of "async for message in websocket" on connection c.
\* Malformed JSON text raises JSONDecodeError, which the loop swallows.
\* Everything else reaches self._parser, an attribute MCAPStreamServer never
\* sets: the AttributeError leaves the loop through the finally clause.
MCAPMessage(c, u) ==
    /\ conn[c].pc = "open"
    /\ ~conn[c].eof
    /\ units < MaxUnits
    /\ units' = units + 1
    /\ unit_bytes' = unit_bytes + u.size
    /\ messages_received' = IF MCAPCounts(u) THEN messages_received + 1
                            ELSE messages_received
    /\ bytes_received' = IF MCAPCounts(u) THEN bytes_received + u.size
                         ELSE bytes_received
    /\ written' = IF /\ MCAP_AVAILABLE
                     /\ writer # "none"
                     /\ u.type = "text"
                     /\ u.json = "object"
                     /\ u.sensorType \in channels
                  THEN Append(written, [channel |-> u.sensorType, conn |-> c,
                                        unit |-> conn[c].recv + 1, to |-> writer])
                  ELSE written
    /\ IF MCAP_AVAILABLE /\ u.type = "text" /\ u.json = "malformed"
       THEN /\ conn' = [conn EXCEPT ![c].recv = @ + 1,
                                     ![c].hist = Append(@, u.sensorType)]
            /\ UNCHANGED <<log, connected_clients>>
       ELSE MCAPFinally(c, [conn[c] EXCEPT !.recv = @ + 1,
                                           !.hist = Append(@, u.sensorType)])
    /\ UNCHANGED <<running, on, parser, MCAP_AVAILABLE, started, listening, stop_pc,
                   stops, resets, writer>>
    /\ UNCHANGED <<bleVars, finish_calls, msg, result, loopq, pending_meta, start_pc>>

\* The transport reports the end of connection c (close frame, protocol
\* error, keepalive timeout): the handler sees it at its next read.
MCAPClose(c) ==
    /\ conn[c].pc \in {"await_connect", "open"}
    /\ ~conn[c].eof
    /\ conn' = [conn EXCEPT ![c].eof = TRUE]
    /\ UNCHANGED <<running, bytes_received, messages_received, connected_clients, on,
                   parser, MCAP_AVAILABLE, started, listening, stop_pc, stops, resets,
                   writer, written, log, units, unit_bytes>>
    /\ UNCHANGED <<bleVars, finish_calls, msg, result, loopq, pending_meta, start_pc>>

\* The read loop of connection c ends: the finally clause runs.
MCAPEnd(c) ==
    /\ conn[c].pc = "open"
    /\ conn[c].eof
    /\ MCAPFinally(c, conn[c])
    /\ UNCHANGED <<running, bytes_received, messages_received, on, parser,
                   MCAP_AVAILABLE, started, listening, stop_pc, stops, resets, writer,
                   written, units, unit_bytes>>
    /\ UNCHANGED <<bleVars, finish_calls, msg, result, loopq, pending_meta, start_pc>>

\* The awaited async disconnect callback returns.
MCAPDisconnected(c) ==
    /\ conn[c].pc = "await_disconnect"
    /\ conn' = [conn EXCEPT ![c].pc = "closed"]
    /\ connected_clients' = connected_clients - 1
    /\ UNCHANGED <<running, bytes_received, messages_received, on, parser,
                   MCAP_AVAILABLE, started, listening, stop_pc, stops, resets, writer,
                   written, log, units, unit_bytes>>
    /\ UNCHANGED <<bleVars, finish_calls, msg, result, loopq, pending_meta, start_pc>>

\* MCAPStreamServer.stop() up to "await self._server.wait_closed()": running
\* is cleared and, if the server was started, it stops listening and closes
\* its connections. Without a server and a writer stop() is over at once.
MCAPStop ==
    /\ stop_pc = "idle"
    /\ stops < MaxStops
    /\ stops' = stops + 1
    /\ running' = FALSE
    /\ IF started
       THEN /\ listening' = FALSE
            /\ conn' = [c \in Conns |->
                          IF conn[c].pc \in {"await_connect", "open"}
                          THEN [conn[c] EXCEPT !.eof = TRUE] ELSE conn[c]]
            /\ stop_pc' = "wait_closed"
       ELSE UNCHANGED <<listening, conn, stop_pc>>
    /\ UNCHANGED <<bytes_received, messages_received, connected_clients, on, parser,
                   MCAP_AVAILABLE, started, resets, writer, written, log, units,
                   unit_bytes>>
    /\ UNCHANGED <<bleVars, finish_calls, msg, result, loopq, pending_meta, start_pc>>

\* wait_closed() returns once every connection handler has finished; stop()
\* then finishes the writer, if there is one.
MCAPStopped ==
    /\ stop_pc = "wait_closed"
    /\ \A c \in Conns : conn[c].pc \in {"idle", "closed"}
    /\ stop_pc' = "idle"
    /\ writer' = IF writer = "none" THEN writer ELSE "finished"
    /\ finish_calls' = IF writer = "none" THEN finish_calls ELSE finish_calls + 1
    /\ UNCHANGED <<running, bytes_received, messages_received, connected_clients, on,
                   parser, MCAP_AVAILABLE, started, listening, stops, resets, written,
                   conn, log, units, unit_bytes>>
    /\ UNCHANGED <<bleVars, msg, result, loopq, pending_meta, start_pc>>

\* The caller cancels the task that runs start(): start() swallows the
\* CancelledError of its wait and leaves the "async with websockets.serve"
\* block, which closes the server and its connections and waits for the
\* connection handlers.
MCAPCancelStart ==
    /\ start_pc = "waiting"
    /\ start_pc' = "closing"
    /\ listening' = FALSE
    /\ conn' = [c \in Conns |->
                  IF conn[c].pc \in {"await_connect", "open"}
                  THEN [conn[c] EXCEPT !.eof = TRUE] ELSE conn[c]]
    /\ UNCHANGED <<running, bytes_received, messages_received, connected_clients, on,
                   parser, MCAP_AVAILABLE, started, stop_pc, stops, resets, writer,
                   written, log, units, unit_bytes>>
    /\ UNCHANGED <<bleVars, finish_calls, msg, result, loopq, pending_meta>>

\* Every connection handler has finished: the block is left and start()
\* returns.
MCAPStartReturned ==
    /\ start_pc = "closing"
    /\ \A c \in Conns : conn[c].pc \in {"idle", "closed"}
    /\ start_pc' = "returned"
    /\ UNCHANGED <<running, bytes_received, messages_received, connected_clients, on,
                   parser, MCAP_AVAILABLE, started, listening, stop_pc, stops, resets,
                   writer, written, conn, log, units, unit_bytes>>
    /\ UNCHANGED <<bleVars, finish_calls, msg, result, loopq, pending_meta>>

InitMCAP == BLEInit /\ MCAPInit

NextMCAP ==
    \/ \E slot \in {"on_connect", "on_disconnect"}, style \in Styles :
           AssignCallback(slot, style)
    \/ \E style \in RaisingStyles : AssignCallback("on_connect", style)
    \/ AssignCallback("on_error", "sync")
    \/ MCAPStart
    \/ \E c \in Conns : MCAPAccept(c)
    \/ \E c \in Conns : MCAPConnected(c)
    \/ \E c \in Conns, u \in SampleUnits : MCAPMessage(c, u)
    \/ \E c \in Conns : MCAPClose(c)
    \/ \E c \in Conns : MCAPEnd(c)
    \/ \E c \in Conns : MCAPDisconnected(c)
    \/ reset_statistics
    \/ MCAPStop
    \/ MCAPStopped
    \/ MCAPCancelStart
    \/ MCAPStartReturned

SpecMCAP == InitMCAP /\ [][NextMCAP]_vars

(***************************************************************************)
(* GRPCArvosServer and SensorStreamServicer (servers/grpc_server.py)       *)
(***************************************************************************)
\* The SensorMessage values of the model: the oneof field that is set (""
\* when none is) and ByteSize(). The camera_metadata message carries the
\* frame in binary_data.
ProtoUnits == {ProtoUnit("imu", 3), ProtoUnit("gps", 2), ProtoUnit("", 0)}
CameraProtoUnits == {ProtoUnit("camera_metadata", 2), ProtoUnit("", 0)}

\* The payload fields _protobuf_to_dict knows.
OneofFields == {"imu", "gps", "pose", "camera_metadata", "depth_metadata",
                "handshake", "status", "error"}

\* A variant of _protobuf_to_dict that names the sensorType after the payload
\* field as it is (camera_metadata, depth_metadata).
protobuf_to_dict_raw(u) ==
    [sensorType |-> IF u.sensorType \in OneofFields THEN u.sensorType ELSE "unknown"]

\* SensorStreamServicer._protobuf_to_dict: the sensorType of the dictionary.
protobuf_to_dict(u) ==
    [sensorType |-> IF u.sensorType \in OneofFields
                    THEN (IF u.sensorType = "camera_metadata" THEN "camera"
                          ELSE IF u.sensorType = "depth_metadata" THEN "depth"
                          ELSE u.sensorType)
                    ELSE "unknown"]

\* The messages of the model. An optional field is a sequence: empty when
\* the field is absent, its value when it is set (a vector x, y, z for a
\* sub-message, one number for a scalar). Gravity is in units of 0.01 m/s2.
Vectors == {<<0, 0, 0>>, <<1, 0, 0>>}
GravityVectors == {<<0, 0, 0>>, <<0, 0, -981>>}
Scalars == {<<0>>, <<1>>}
Timestamps == {1, 2}
ImuBodies == [angular_velocity : Vectors \cup {<<>>},
              linear_acceleration : Vectors \cup {<<>>},
              gravity : GravityVectors \cup {<<>>}]
GpsBodies == [speed : Scalars \cup {<<>>}, course : Scalars \cup {<<>>}]
PoseBodies == [position : Vectors \cup {<<>>}]
SensorMessages ==
    {SensorMessage("imu", t, b) : t \in Timestamps, b \in ImuBodies}
    \cup {SensorMessage("gps", t, b) : t \in Timestamps, b \in GpsBodies}
    \cup {SensorMessage("pose", t, b) : t \in Timestamps, b \in PoseBodies}
    \cup {SensorMessage(f, t, <<>>) :
              f \in {"camera_metadata", "depth_metadata", "handshake", "status",
                     "error", ""},
              t \in Timestamps}

\* Reading a scalar field of a protobuf message: the value, or 0 when the
\* field was never set.
scalar(field) == IF field = <<>> THEN 0 ELSE field[1]

\* SensorStreamServicer._protobuf_to_dict with the fields of the payload.
\* An absent vector of an imu message becomes [0, 0, 0], absent gravity
\* [0, 0, -9.81]; the gps scalars are read as they are; the position of a
\* pose is copied only when the message has it.
msg_dict(m) ==
    LET head == [timestampNs |-> m.timestamp_ns,
                 sensorType |-> protobuf_to_dict(m).sensorType]
    IN  CASE m.sensorType = "imu" ->
                 [timestampNs |-> head.timestampNs, sensorType |-> head.sensorType,
                  angularVelocity |->
                      IF m.body.angular_velocity # <<>>
                      THEN m.body.angular_velocity ELSE <<0, 0, 0>>,
                  linearAcceleration |->
                      IF m.body.linear_acceleration # <<>>
                      THEN m.body.linear_acceleration ELSE <<0, 0, 0>>,
                  gravity |->
                      IF m.body.gravity # <<>>
                      THEN m.body.gravity ELSE <<0, 0, -981>>]
          [] m.sensorType = "gps" ->
                 [timestampNs |-> head.timestampNs, sensorType |-> head.sensorType,
                  speed |-> scalar(m.body.speed), course |-> scalar(m.body.course)]
          [] m.sensorType = "pose" /\ m.body.position # <<>> ->
                 [timestampNs |-> head.timestampNs, sensorType |-> head.sensorType,
                  position |-> m.body.position]
          [] OTHER -> head

\* _configure_callbacks: the parser's slots are copies of the server's slots
\* at the moment of the call.
configure_callbacks == [s \in SensorSlots \cup {"on_error"} |-> on[s]]

\* The log after a gRPC worker thread has notified the callback in slot:
\* a plain function is called on the worker thread; a coroutine function is
\* handed to asyncio.create_task, which raises RuntimeError on a thread with
\* no running event loop, so the coroutine never runs; the except clause
\* around the notification prints that error or the one the callback raised.
Notified(lg, slot, c, k) ==
    IF on[slot] # "none" /\ ~iscoroutinefunction(on[slot])
    THEN Append(lg, Call(slot, c, k, "worker")) ELSE lg

\* GRPCArvosServer.start() up to its wait: the servicer and its parser are
\* created and the server starts serving on its thread pool.
GRPCStart ==
    /\ ~started
    /\ start_pc' = "waiting"
    /\ started' = TRUE
    /\ running' = TRUE
    /\ parser' = configure_callbacks
    /\ listening' = TRUE
    /\ UNCHANGED <<bytes_received, messages_received, connected_clients, on,
                   MCAP_AVAILABLE, stop_pc, stops, resets, writer, written, conn, log,
                   units, unit_bytes>>
    /\ UNCHANGED <<bleVars, finish_calls, msg, result, loopq, pending_meta>>

\* A client opens a stream: a worker thread enters StreamSensors and notifies
\* the connect callback.
GRPCOpen(c) ==
    /\ listening
    /\ conn[c].pc = "idle"
    /\ log' = Notified(log, "on_connect", c, 0)
    /\ conn' = [conn EXCEPT ![c].pc = "cc_load"]
    /\ UNCHANGED <<running, bytes_received, messages_received, connected_clients, on,
                   parser, MCAP_AVAILABLE, started, listening, stop_pc, stops, resets,
                   writer, written, units, unit_bytes>>
    /\ UNCHANGED <<bleVars, finish_calls, msg, result, loopq, pending_meta, start_pc>>

\* A worker thread reads a counter into its register: the first half of
\* "+= 1" on connected_clients, messages_received and bytes_received, and of
\* the decrement in the finally clause. Nothing serializes the threads.
GRPCLoad(c) ==
    /\ conn[c].pc \in {"cc_load", "mr_load", "br_load", "fin_load"}
    /\ conn' = [conn EXCEPT
                  ![c].tmp = CASE conn[c].pc = "cc_load" -> connected_clients
                               [] conn[c].pc = "mr_load" -> messages_received
                               [] conn[c].pc = "br_load" -> bytes_received
                               [] conn[c].pc = "fin_load" -> connected_clients,
                  ![c].pc = CASE conn[c].pc = "cc_load" -> "cc_store"
                              [] conn[c].pc = "mr_load" -> "mr_store"
                              [] conn[c].pc = "br_load" -> "br_store"
                              [] conn[c].pc = "fin_load" -> "fin_store"]
    /\ UNCHANGED <<running, bytes_received, messages_received, connected_clients, on,
                   parser, MCAP_AVAILABLE, started, listening, stop_pc, stops, resets,
                   writer, written, log, units, unit_bytes>>
    /\ UNCHANGED <<bleVars, finish_calls, msg, result, loopq, pending_meta, start_pc>>

\* self.base_server.connected_clients += 1, second half; the thread then
\* waits for the first message of the stream.
GRPCStoreClients(c) ==
    /\ conn[c].pc = "cc_store"
    /\ connected_clients' = conn[c].tmp + 1
    /\ conn' = [conn EXCEPT ![c].pc = "iter"]
    /\ UNCHANGED <<running, bytes_received, messages_received, on, parser,
                   MCAP_AVAILABLE, started, listening, stop_pc, stops, resets, writer,
                   written, log, units, unit_bytes>>
    /\ UNCHANGED <<bleVars, finish_calls, msg, result, loopq, pending_meta, start_pc>>

\* request_iterator yields the next SensorMessage of stream c.
GRPCNext(c, u) ==
    /\ conn[c].pc = "iter"
    /\ units < MaxUnits
    /\ units' = units + 1
    /\ unit_bytes' = unit_bytes + u.size
    /\ conn' = [conn EXCEPT ![c].pc = "mr_load", ![c].cur = u, ![c].recv = @ + 1,
                            ![c].hist = Append(@, protobuf_to_dict(u).sensorType)]
    /\ UNCHANGED <<running, bytes_received, messages_received, connected_clients, on,
                   parser, MCAP_AVAILABLE, started, listening, stop_pc, stops, resets,
                   writer, written, log>>
    /\ UNCHANGED <<bleVars, finish_calls, msg, result, loopq, pending_meta, start_pc>>

\* self.base_server.messages_received += 1, second half.
GRPCStoreMessages(c) ==
    /\ conn[c].pc = "mr_store"
    /\ messages_received' = conn[c].tmp + 1
    /\ conn' = [conn EXCEPT ![c].pc = "br_load"]
    /\ UNCHANGED <<running, bytes_received, connected_clients, on, parser,
                   MCAP_AVAILABLE, started, listening, stop_pc, stops, resets, writer,
                   written, log, units, unit_bytes>>
    /\ UNCHANGED <<bleVars, finish_calls, msg, result, loopq, pending_meta, start_pc>>

\* self.base_server.bytes_received += msg_size, second half.
GRPCStoreBytes(c) ==
    /\ conn[c].pc = "br_store"
    /\ bytes_received' = conn[c].tmp + conn[c].cur.size
    /\ conn' = [conn EXCEPT ![c].pc = "dispatch"]
    /\ UNCHANGED <<running, messages_received, connected_clients, on, parser,
                   MCAP_AVAILABLE, started, listening, stop_pc, stops, resets, writer,
                   written, log, units, unit_bytes>>
    /\ UNCHANGED <<bleVars, finish_calls, msg, result, loopq, pending_meta, start_pc>>

\* The message is converted and handed to
\* asyncio.create_task(self.parser._handle_message(msg_json)). On the worker
\* thread create_task raises RuntimeError (no running event loop): the parser
\* coroutine never runs, and the except clause notifies on_error.
GRPCDispatch(c) ==
    /\ conn[c].pc = "dispatch"
    /\ log' = Notified(log, "on_error", c, conn[c].recv)
    /\ conn' = [conn EXCEPT ![c].pc = "iter", ![c].cur = NoUnit]
    /\ UNCHANGED <<running, bytes_received, messages_received, connected_clients, on,
                   parser, MCAP_AVAILABLE, started, listening, stop_pc, stops, resets,
                   writer, written, units, unit_bytes>>
    /\ UNCHANGED <<bleVars, finish_calls, msg, result, loopq, pending_meta, start_pc>>

\* request_iterator ends, because the client half-closes or cancels the
\* stream or the transport fails: the thread enters the finally clause.
GRPCEnd(c) ==
    /\ conn[c].pc = "iter"
    /\ conn' = [conn EXCEPT ![c].pc = "fin_load", ![c].eof = TRUE]
    /\ UNCHANGED <<running, bytes_received, messages_received, connected_clients, on,
                   parser, MCAP_AVAILABLE, started, listening, stop_pc, stops, resets,
                   writer, written, log, units, unit_bytes>>
    /\ UNCHANGED <<bleVars, finish_calls, msg, result, loopq, pending_meta, start_pc>>

\* connected_clients = max(0, connected_clients - 1), second half, and the
\* notification of the disconnect callback; StreamSensors returns.
GRPCFinally(c) ==
    /\ conn[c].pc = "fin_store"
    /\ connected_clients' = IF conn[c].tmp - 1 > 0 THEN conn[c].tmp - 1 ELSE 0
    /\ log' = Notified(log, "on_disconnect", c, 0)
    /\ conn' = [conn EXCEPT ![c].pc = "closed"]
    /\ UNCHANGED <<running, bytes_received, messages_received, on, parser,
                   MCAP_AVAILABLE, started, listening, stop_pc, stops, resets, writer,
                   written, units, unit_bytes>>
    /\ UNCHANGED <<bleVars, finish_calls, msg, result, loopq, pending_meta, start_pc>>

\* A variant of stop() that clears running and leaves the grpc server as it
\* is: the port stays open.
GRPCStopKeepsServing ==
    /\ stops < MaxStops
    /\ stops' = stops + 1
    /\ running' = FALSE
    /\ UNCHANGED <<bytes_received, messages_received, connected_clients, on, parser,
                   MCAP_AVAILABLE, started, listening, stop_pc, resets, writer,
                   written, conn, log, units, unit_bytes>>
    /\ UNCHANGED <<bleVars, finish_calls, msg, result, loopq, pending_meta, start_pc>>

\* GRPCArvosServer.stop(): running is cleared and a started server stops
\* accepting streams. server.stop(grace=5) does not wait: the open streams go
\* on until they end or the grace period ends them.
GRPCStop ==
    /\ stops < MaxStops
    /\ stops' = stops + 1
    /\ running' = FALSE
    /\ listening' = FALSE
    /\ UNCHANGED <<bytes_received, messages_received, connected_clients, on, parser,
                   MCAP_AVAILABLE, started, stop_pc, resets, writer, written, conn,
                   log, units, unit_bytes>>
    /\ UNCHANGED <<bleVars, finish_calls, msg, result, loopq, pending_meta, start_pc>>

InitGRPC == BLEInit /\ ServerInit

\* The steps of a started or starting server whose clients send messages of U.
GRPCSteps(U) ==
    \/ GRPCStart
    \/ \E c \in Conns : GRPCOpen(c)
    \/ \E c \in Conns : GRPCLoad(c)
    \/ \E c \in Conns : GRPCStoreClients(c)
    \/ \E c \in Conns, u \in U : GRPCNext(c, u)
    \/ \E c \in Conns : GRPCStoreMessages(c)
    \/ \E c \in Conns : GRPCStoreBytes(c)
    \/ \E c \in Conns : GRPCDispatch(c)
    \/ \E c \in Conns : GRPCEnd(c)
    \/ \E c \in Conns : GRPCFinally(c)
    \/ GRPCStop

NextGRPC ==
    \/ \E slot \in {"on_connect", "on_disconnect", "on_imu"}, style \in Styles :
           AssignCallback(slot, style)
    \/ GRPCSteps(ProtoUnits)

SpecGRPC == InitGRPC /\ [][NextGRPC]_vars

\* The same server with a connect callback that raises, a disconnect callback
\* of either style and a camera handler, and clients that send camera frames.
NextGRPCCalls ==
    \/ AssignCallback("on_connect", "sync_raises")
    \/ \E style \in {"sync", "async"} : AssignCallback("on_disconnect", style)
    \/ AssignCallback("on_camera", "sync")
    \/ GRPCSteps(CameraProtoUnits)

SpecGRPCCalls == InitGRPC /\ [][NextGRPCCalls]_vars

\* One message of stream c from request_iterator up to its dispatch, without
\* the statistics: the message is converted by _protobuf_to_dict.
GRPCConvert(c, m) ==
    /\ conn[c].pc = "idle"
    /\ msg' = m
    /\ result' = msg_dict(m)
    /\ conn' = [conn EXCEPT ![c].pc = "dispatch", ![c].recv = @ + 1,
                            ![c].hist = Append(@, msg_dict(m).sensorType)]
    /\ UNCHANGED <<running, bytes_received, messages_received, connected_clients, on,
                   parser, MCAP_AVAILABLE, started, listening, stop_pc, stops, resets,
                   writer, written, log, units, unit_bytes>>
    /\ UNCHANGED <<bleVars, finish_calls, loopq, pending_meta, start_pc>>

\* _protobuf_to_dict applied to the messages of the model, with a sensor
\* handler and an error handler on the server.
NextProto ==
    \/ \E slot \in {"on_imu", "on_error"}, style \in {"none", "sync"} :
           AssignCallback(slot, style)
    \/ \E m \in SensorMessages : GRPCConvert(1, m)
    \/ GRPCDispatch(1)

SpecProto == InitGRPC /\ [][NextProto]_vars

\* The caller cancels the task that runs start(): start() swallows the
\* CancelledError of its wait and returns. Nothing stops the gRPC server.
GRPCCancelStart ==
    /\ start_pc = "waiting"
    /\ start_pc' = "returned"
    /\ UNCHANGED <<running, bytes_received, messages_received, connected_clients, on,
                   parser, MCAP_AVAILABLE, started, listening, stop_pc, stops, resets,
                   writer, written, conn, log, units, unit_bytes>>
    /\ UNCHANGED <<bleVars, finish_calls, msg, result, loopq, pending_meta>>

\* The steps a worker thread of the pool takes on its own, once it has a
\* stream or a message: the scheduler runs each of them eventually.
GRPCWorker ==
    \E c \in Conns :
        \/ GRPCLoad(c)
        \/ GRPCStoreClients(c)
        \/ GRPCStoreMessages(c)
        \/ GRPCStoreBytes(c)
        \/ GRPCDispatch(c)
        \/ GRPCFinally(c)

\* The life of one server whose start() task the caller may cancel, with the
\* worker threads scheduled fairly. The clients and the caller of stop() and
\* cancel() are free to act or not.
NextGRPCLive ==
    \/ GRPCSteps({ProtoUnit("imu", 3)})
    \/ GRPCCancelStart

SpecGRPCLive == InitGRPC /\ [][NextGRPCLive]_vars /\ WF_vars(GRPCWorker)

(***************************************************************************)
(* ArvosClient, the parser of the adapters (python/arvos/client.py)        *)
(***************************************************************************)
\* The text unit that announces a camera frame sent as a separate binary unit.
CameraMetadata == TextUnit("object", "camera", 2)

\* What a unit decodes to: the record kind of a text unit, "camera_metadata"
\* for the metadata of a frame, "camera" for a binary unit (the frame), or ""
\* on a decode failure (malformed JSON, JSON that is no object, unknown
\* sensorType).
decode(u) ==
    IF u.type = "binary" THEN "camera"
    ELSE IF u.type = "text" /\ u.json = "object" /\ u.sensorType \in SensorKinds
    THEN (IF u.sensorType = "camera" THEN "camera_metadata" ELSE u.sensorType)
    ELSE ""

\* ArvosClient._handle_json_message on the event loop: the log after the unit
\* k of connection c has been decoded and dispatched to the parser's slot of
\* its kind; a decode failure goes to the parser's on_error slot. Nothing is
\* raised to the caller. The metadata of a frame yields no record: the parser
\* keeps it for the binary unit that follows.
handle_json_message(lg, u, c, k) ==
    LET slot == IF decode(u) = "" THEN "on_error" ELSE SlotOf[decode(u)]
    IN IF decode(u) = "camera_metadata" \/ parser[slot] = "none" THEN lg
       ELSE Append(lg, Call(slot, c, k, "loop"))

\* The metadata the parser holds after the text unit u of connection c. The
\* adapters pass the parser the text only, so it keeps one metadata per
\* parser, whatever connection it came from.
metadata_after(u, c) == IF decode(u) = "camera_metadata" THEN c ELSE pending_meta

\* ArvosClient._handle_binary_message on the event loop: the binary unit k of
\* connection c becomes one camera record, with the metadata the parser
\* holds or with default metadata, and goes to the parser's on_camera slot.
handle_binary_message(lg, c, k) ==
    IF parser["on_camera"] = "none" THEN lg
    ELSE Append(lg, Call("on_camera", c, k, "loop"))

(***************************************************************************)
(* HTTPArvosServer (python/arvos/servers/http_server.py)                   *)
(***************************************************************************)
\* HTTPArvosServer.__init__: the parser is created and _configure_callbacks
\* copies the server's slots, all still None, into it.
HTTPInit ==
    /\ BaseInit
    /\ AdapterInit
    /\ parser = configure_callbacks
    /\ MCAP_AVAILABLE = TRUE

\* The requests of the model: a JSON body posted to the telemetry path, a
\* frame posted to the binary path, the health check, requests to a path
\* that is not served, and a request with a method other than GET and POST.
TextUnits == {u \in SampleUnits : u.type = "text"}
Requests ==
    {[method |-> "POST", path |-> "/api/telemetry", unit |-> u] :
         u \in TextUnits \cup {CameraMetadata}}
    \cup {[method |-> "POST", path |-> "/api/binary", unit |-> BinaryUnit(2)],
          [method |-> "GET", path |-> "/api/health", unit |-> NoUnit],
          [method |-> "GET", path |-> "/other", unit |-> NoUnit],
          [method |-> "POST", path |-> "/other", unit |-> NoUnit],
          [method |-> "PUT", path |-> "/api/telemetry", unit |-> NoUnit]}

\* A coroutine scheduled on the loop with run_coroutine_threadsafe.
Coro(what, c) == [what |-> what, conn |-> c]

\* HTTPArvosServer.start() up to its wait: running is set, then the HTTP
\* server is bound and serve_forever runs on a thread. When the address cannot
\* be bound, ThreadingHTTPServer raises OSError out of start().
HTTPStart ==
    /\ ~started
    /\ started' = TRUE
    /\ running' = TRUE
    /\ \E bound \in BOOLEAN :
           /\ listening' = bound
           /\ start_pc' = IF bound THEN "waiting" ELSE "raised"
    /\ UNCHANGED <<bytes_received, messages_received, connected_clients, on, parser,
                   MCAP_AVAILABLE, stop_pc, stops, resets, writer, written, conn, log,
                   units, unit_bytes, loopq>>
    /\ UNCHANGED <<bleVars, finish_calls, msg, result, pending_meta>>

\* A variant of the request thread that does not wait for the result of the
\* coroutine it schedules: a POST to the telemetry or the binary path goes on
\* to write its 200 response at once.
HTTPRequestNoWait(c, r) ==
    /\ listening
    /\ conn[c].pc = "idle"
    /\ r.unit # NoUnit => units < MaxUnits
    /\ units' = IF r.unit # NoUnit THEN units + 1 ELSE units
    /\ unit_bytes' = unit_bytes + r.unit.size
    /\ IF r.method \notin {"GET", "POST"}
       THEN /\ conn' = [conn EXCEPT ![c].pc = "closed",
                                    ![c].method = r.method, ![c].path = r.path,
                                    ![c].status = 501]
            /\ UNCHANGED loopq
       ELSE IF r.method = "POST" /\ r.path \in {"/api/telemetry", "/api/binary"}
       THEN /\ loopq' = loopq \o <<Coro("on_connect", c),
                                   Coro(IF r.path = "/api/binary" THEN "binary"
                                        ELSE "json", c)>>
            /\ conn' = [conn EXCEPT ![c].pc = "respond", ![c].cur = r.unit,
                                    ![c].method = r.method, ![c].path = r.path,
                                    ![c].recv = 1, ![c].status = 200,
                                    ![c].hist = <<decode(r.unit)>>]
       ELSE /\ loopq' = Append(loopq, Coro("on_connect", c))
            /\ conn' = [conn EXCEPT ![c].pc = "respond",
                                    ![c].method = r.method, ![c].path = r.path,
                                    ![c].status =
                                        IF r.method = "GET" /\ r.path = "/api/health"
                                        THEN 200 ELSE 404]
    /\ UNCHANGED <<running, bytes_received, messages_received, connected_clients, on,
                   parser, MCAP_AVAILABLE, started, listening, stop_pc, stops, resets,
                   writer, written, log>>
    /\ UNCHANGED <<bleVars, finish_calls, msg, result, pending_meta, start_pc>>

\* A request arrives: its thread enters do_GET or do_POST, schedules the
\* connect callback on the loop and, for a POST to the telemetry or the
\* binary path, schedules _handle_json_message or _handle_binary_message and
\* blocks on its result. Any other GET or POST
\* is answered without the loop: 200 for the health check, else 404.
\* RequestHandler defines do_GET and do_POST only: for any other method
\* BaseHTTPRequestHandler answers 501 itself and no callback is scheduled.
HTTPRequest(c, r) ==
    /\ listening
    /\ conn[c].pc = "idle"
    /\ r.unit # NoUnit => units < MaxUnits
    /\ units' = IF r.unit # NoUnit THEN units + 1 ELSE units
    /\ unit_bytes' = unit_bytes + r.unit.size
    /\ IF r.method \notin {"GET", "POST"}
       THEN /\ conn' = [conn EXCEPT ![c].pc = "closed",
                                    ![c].method = r.method, ![c].path = r.path,
                                    ![c].status = 501]
            /\ UNCHANGED loopq
       ELSE IF r.method = "POST" /\ r.path \in {"/api/telemetry", "/api/binary"}
       THEN /\ loopq' = loopq \o <<Coro("on_connect", c),
                                   Coro(IF r.path = "/api/binary" THEN "binary"
                                        ELSE "json", c)>>
            /\ conn' = [conn EXCEPT ![c].pc = "wait_result", ![c].cur = r.unit,
                                    ![c].method = r.method, ![c].path = r.path,
                                    ![c].recv = 1,
                                    ![c].hist = <<decode(r.unit)>>]
       ELSE /\ loopq' = Append(loopq, Coro("on_connect", c))
            /\ conn' = [conn EXCEPT ![c].pc = "respond",
                                    ![c].method = r.method, ![c].path = r.path,
                                    ![c].status =
                                        IF r.method = "GET" /\ r.path = "/api/health"
                                        THEN 200 ELSE 404]
    /\ UNCHANGED <<running, bytes_received, messages_received, connected_clients, on,
                   parser, MCAP_AVAILABLE, started, listening, stop_pc, stops, resets,
                   writer, written, log>>
    /\ UNCHANGED <<bleVars, finish_calls, msg, result, pending_meta, start_pc>>

\* The event loop runs the coroutine at the head of its queue: a connect or
\* disconnect callback through _invoke_callback, or
\* HTTPArvosServer._handle_json_message or _handle_binary_message, which
\* hands the body to the parser, calls on_message if it is set and completes
\* the future the request thread waits for.
HTTPLoopRun ==
    /\ loopq # <<>>
    /\ loopq' = Tail(loopq)
    /\ LET co == Head(loopq)
           c == co.conn
       IN CASE co.what = "json" ->
                 /\ log' = Called(handle_json_message(log, conn[c].cur, c, 1),
                                  "on_message", c, 1)
                 /\ pending_meta' = metadata_after(conn[c].cur, c)
                 /\ conn' = [conn EXCEPT ![c].pc = "respond", ![c].status = 200]
            [] co.what = "binary" ->
                 /\ log' = Called(handle_binary_message(log, c, 1), "on_message", c, 1)
                 /\ pending_meta' = 0
                 /\ conn' = [conn EXCEPT ![c].pc = "respond", ![c].status = 200,
                                         ![c].meta = pending_meta]
            [] OTHER ->
                 /\ log' = Called(log, co.what, c, 0)
                 /\ UNCHANGED <<conn, pending_meta>>
    /\ UNCHANGED <<running, bytes_received, messages_received, connected_clients, on,
                   parser, MCAP_AVAILABLE, started, listening, stop_pc, stops, resets,
                   writer, written, units, unit_bytes>>
    /\ UNCHANGED <<bleVars, finish_calls, msg, result, start_pc>>

\* The request thread writes the response and, in the finally clause,
\* schedules the disconnect callback.
HTTPRespond(c) ==
    /\ conn[c].pc = "respond"
    /\ conn' = [conn EXCEPT ![c].pc = "closed"]
    /\ loopq' = Append(loopq, Coro("on_disconnect", c))
    /\ UNCHANGED <<running, bytes_received, messages_received, connected_clients, on,
                   parser, MCAP_AVAILABLE, started, listening, stop_pc, stops, resets,
                   writer, written, log, units, unit_bytes>>
    /\ UNCHANGED <<bleVars, finish_calls, msg, result, pending_meta, start_pc>>

\* A variant of stop() that leaves running as it is.
HTTPStopKeepsRunning ==
    /\ stops < MaxStops
    /\ stops' = stops + 1
    /\ listening' = FALSE
    /\ start_pc' = IF start_pc = "waiting" THEN "ended" ELSE start_pc
    /\ UNCHANGED <<running, bytes_received, messages_received, connected_clients, on,
                   parser, MCAP_AVAILABLE, started, stop_pc, resets, writer, written,
                   conn, log, units, unit_bytes, loopq>>
    /\ UNCHANGED <<bleVars, finish_calls, msg, result, pending_meta>>

\* HTTPArvosServer.stop(): running is cleared and the HTTP server, if any, is
\* shut down and closed; requests already accepted run to their end. The
\* serve task, if any, is cancelled and awaited: the start() call that awaits
\* the same task ends with that task's CancelledError.
HTTPStop ==
    /\ stops < MaxStops
    /\ stops' = stops + 1
    /\ running' = FALSE
    /\ listening' = FALSE
    /\ start_pc' = IF start_pc = "waiting" THEN "ended" ELSE start_pc
    /\ UNCHANGED <<bytes_received, messages_received, connected_clients, on, parser,
                   MCAP_AVAILABLE, started, stop_pc, resets, writer, written, conn,
                   log, units, unit_bytes, loopq>>
    /\ UNCHANGED <<bleVars, finish_calls, msg, result, pending_meta>>

\* The caller cancels the task that runs start() and awaits it (task.cancel(),
\* await task): the await of the serve task is cancelled and start() ends with
\* CancelledError; a task that stop() has ended already is left as it is and
\* hands its CancelledError to the caller. The thread that runs serve_forever
\* is not interrupted.
HTTPCancelStart ==
    /\ start_pc \in {"waiting", "ended"}
    /\ start_pc' = "cancelled"
    /\ UNCHANGED <<running, bytes_received, messages_received, connected_clients, on,
                   parser, MCAP_AVAILABLE, started, listening, stop_pc, stops, resets,
                   writer, written, conn, log, units, unit_bytes, loopq>>
    /\ UNCHANGED <<bleVars, finish_calls, msg, result, pending_meta>>

InitHTTP == BLEInit /\ HTTPInit

NextHTTP ==
    \/ \E slot \in {"on_connect", "on_disconnect", "on_imu", "on_gps"},
          style \in Styles :
           AssignCallback(slot, style)
    \/ HTTPStart
    \/ \E c \in Conns, r \in Requests : HTTPRequest(c, r)
    \/ HTTPLoopRun
    \/ \E c \in Conns : HTTPRespond(c)
    \/ HTTPStop
    \/ HTTPCancelStart

SpecHTTP == InitHTTP /\ [][NextHTTP]_vars

\* The POSTs the server accepts: an imu envelope or a body that is not JSON
\* for the telemetry path, and a frame for the binary path.
AcceptedPosts ==
    {[method |-> "POST", path |-> "/api/telemetry", unit |-> TextUnit("object", "imu", 3)],
     [method |-> "POST", path |-> "/api/telemetry", unit |-> TextUnit("malformed", "", 1)],
     [method |-> "POST", path |-> "/api/binary", unit |-> BinaryUnit(2)]}

\* The same server with callbacks for the session and for every message, and
\* clients that post to the served paths. The event loop keeps running and
\* the request threads are scheduled: both are fair. The clients and the
\* caller of stop() are free to act or not.
NextHTTPLive ==
    \/ \E slot \in {"on_disconnect", "on_message"} : AssignCallback(slot, "sync")
    \/ HTTPStart
    \/ \E c \in Conns, r \in AcceptedPosts : HTTPRequest(c, r)
    \/ HTTPLoopRun
    \/ \E c \in Conns : HTTPRespond(c)
    \/ HTTPStop

SpecHTTPLive ==
    /\ InitHTTP
    /\ [][NextHTTPLive]_vars
    /\ WF_vars(HTTPLoopRun)
    /\ \A c \in Conns : WF_vars(HTTPRespond(c))

(***************************************************************************)
(* MCAPHTTPServer (python/arvos/servers/mcap_http_server.py)               *)
(***************************************************************************)
\* MCAPHTTPServer.__init__: no writer yet and no parser. The module is
\* imported with or without the mcap library.
MCAPHTTPInit ==
    /\ BaseInit
    /\ AdapterInit
    /\ parser = "absent"
    /\ MCAP_AVAILABLE \in BOOLEAN

\* MCAPHTTPServer.start() up to its wait: the writer is started when the mcap
\* library is there, the routes are added and the site listens.
MCAPHTTPStart ==
    /\ ~started
    /\ start_pc' = "waiting"
    /\ started' = TRUE
    /\ writer' = IF MCAP_AVAILABLE THEN "started" ELSE writer
    /\ listening' = TRUE
    /\ running' = TRUE
    /\ UNCHANGED <<bytes_received, messages_received, connected_clients, on, parser,
                   MCAP_AVAILABLE, stop_pc, stops, resets, written, conn, log, units,
                   unit_bytes>>
    /\ UNCHANGED <<bleVars, finish_calls, msg, result, loopq, pending_meta>>

\* The request c as its handler leaves it: answered with status.
Answered(c, method, path, u, status) ==
    [conn[c] EXCEPT !.pc = "closed", !.method = method, !.path = path, !.cur = u,
                    !.status = status,
                    !.recv = IF u = NoUnit THEN 0 ELSE 1,
                    !.hist = IF u = NoUnit THEN <<>> ELSE <<decode(u)>>]

\* handle_telemetry for a POST of the text u: request.json() raises on a body
\* that is no JSON, before anything is counted. Otherwise the message is
\* counted, written to its channel if there is a writer (data.get raises
\* when the JSON is no object), and handed to self._parser, an attribute
\* MCAPHTTPServer never sets. Every exception ends in the 500 response.
handle_telemetry(c, u) ==
    /\ listening
    /\ conn[c].pc = "idle"
    /\ units < MaxUnits
    /\ units' = units + 1
    /\ unit_bytes' = unit_bytes + u.size
    /\ messages_received' = IF u.json = "malformed" THEN messages_received
                            ELSE messages_received + 1
    /\ written' = IF /\ writer # "none"
                     /\ u.json = "object"
                     /\ u.sensorType \in channels
                  THEN Append(written, [channel |-> u.sensorType, conn |-> c,
                                        unit |-> 1, to |-> writer])
                  ELSE written
    /\ conn' = [conn EXCEPT ![c] = Answered(c, "POST", "/api/mcap/telemetry", u, 500)]
    /\ UNCHANGED <<running, bytes_received, connected_clients, on, parser,
                   MCAP_AVAILABLE, started, listening, stop_pc, stops, resets, writer,
                   log>>
    /\ UNCHANGED <<bleVars, finish_calls, msg, result, loopq, pending_meta, start_pc>>

\* handle_binary for a POST of the bytes u: the message is counted, then
\* self._parser raises AttributeError: 500, and nothing is written.
handle_binary(c, u) ==
    /\ listening
    /\ conn[c].pc = "idle"
    /\ units < MaxUnits
    /\ units' = units + 1
    /\ unit_bytes' = unit_bytes + u.size
    /\ messages_received' = messages_received + 1
    /\ bytes_received' = bytes_received + u.size
    /\ conn' = [conn EXCEPT ![c] = Answered(c, "POST", "/api/mcap/binary", u, 500)]
    /\ UNCHANGED <<running, connected_clients, on, parser, MCAP_AVAILABLE, started,
                   listening, stop_pc, stops, resets, writer, written, log>>
    /\ UNCHANGED <<bleVars, finish_calls, msg, result, loopq, pending_meta, start_pc>>

\* handle_health, and the router's answer to a path that has no route.
handle_health(c, path) ==
    /\ listening
    /\ conn[c].pc = "idle"
    /\ conn' = [conn EXCEPT ![c] = Answered(c, "GET", path, NoUnit,
                                            IF path = "/api/mcap/health"
                                            THEN 200 ELSE 404)]
    /\ UNCHANGED <<running, bytes_received, messages_received, connected_clients, on,
                   parser, MCAP_AVAILABLE, started, listening, stop_pc, stops, resets,
                   writer, written, log, units, unit_bytes>>
    /\ UNCHANGED <<bleVars, finish_calls, msg, result, loopq, pending_meta, start_pc>>

\* MCAPHTTPServer.stop(): running is cleared, the site is stopped and the
\* writer, if there is one, is finished.
MCAPHTTPStop ==
    /\ stops < MaxStops
    /\ stops' = stops + 1
    /\ running' = FALSE
    /\ listening' = FALSE
    /\ writer' = IF writer = "none" THEN writer ELSE "finished"
    /\ finish_calls' = IF writer = "none" THEN finish_calls ELSE finish_calls + 1
    /\ UNCHANGED <<bytes_received, messages_received, connected_clients, on, parser,
                   MCAP_AVAILABLE, started, stop_pc, resets, written, conn, log, units,
                   unit_bytes>>
    /\ UNCHANGED <<bleVars, msg, result, loopq, pending_meta, start_pc>>

InitMCAPHTTP == BLEInit /\ MCAPHTTPInit

NextMCAPHTTP ==
    \/ \E slot \in {"on_connect", "on_disconnect", "on_imu", "on_gps"},
          style \in Styles :
           AssignCallback(slot, style)
    \/ MCAPHTTPStart
    \/ \E c \in Conns, u \in TextUnits \cup {CameraMetadata} : handle_telemetry(c, u)
    \/ \E c \in Conns : handle_binary(c, BinaryUnit(2))
    \/ \E c \in Conns, path \in {"/api/mcap/health", "/other"} : handle_health(c, path)
    \/ reset_statistics
    \/ MCAPHTTPStop

SpecMCAPHTTP == InitMCAPHTTP /\ [][NextMCAPHTTP]_vars

(***************************************************************************)
(* MQTTArvosServer (python/arvos/servers/mqtt_server.py)                   *)
(***************************************************************************)
\* The topics the server subscribes to, as the connections of the model:
\* 1 is topic_telemetry, 2 is topic_binary.
Topics == {1, 2}

\* The payloads published on a topic.
TopicUnits(t) == IF t = 1 THEN TextUnits ELSE {BinaryUnit(2)}

\* MQTTArvosServer.__init__: no client yet, and no parser.
MQTTInit ==
    /\ BaseInit
    /\ AdapterInit
    /\ parser = "absent"
    /\ MCAP_AVAILABLE = TRUE

\* MQTTArvosServer.start() up to its wait: the paho client connects to the
\* broker and its network thread is started.
MQTTStart ==
    /\ ~started
    /\ start_pc' = "waiting"
    /\ started' = TRUE
    /\ running' = TRUE
    /\ UNCHANGED <<bytes_received, messages_received, connected_clients, on, parser,
                   MCAP_AVAILABLE, listening, stop_pc, stops, resets, writer, written,
                   conn, log, units, unit_bytes>>
    /\ UNCHANGED <<bleVars, finish_calls, msg, result, loopq, pending_meta>>

\* _on_connect with rc = 0, on the network thread: the broker has accepted
\* the client, the two topics are subscribed.
MQTTOnConnect ==
    /\ started
    /\ running
    /\ ~listening
    /\ listening' = TRUE
    /\ UNCHANGED <<running, bytes_received, messages_received, connected_clients, on,
                   parser, MCAP_AVAILABLE, started, stop_pc, stops, resets, writer,
                   written, conn, log, units, unit_bytes>>
    /\ UNCHANGED <<bleVars, finish_calls, msg, result, loopq, pending_meta, start_pc>>

\* _on_message on the network thread for a message of topic t: the message
\* is counted, then self._parser, which MQTTArvosServer never sets, raises
\* AttributeError. Without on_error the except clause swallows it. With
\* on_error it calls asyncio.create_task on a thread with no running event
\* loop: on_error does not run, and the RuntimeError leaves _on_message and
\* ends the network thread. No user callback is invoked.
MQTTOnMessage(t, u) ==
    /\ listening
    /\ units < MaxUnits
    /\ units' = units + 1
    /\ unit_bytes' = unit_bytes + u.size
    /\ messages_received' = messages_received + 1
    /\ bytes_received' = bytes_received + u.size
    /\ conn' = [conn EXCEPT ![t].pc = "open", ![t].cur = u, ![t].recv = @ + 1,
                            ![t].hist = Append(@, decode(u))]
    /\ listening' = (on["on_error"] = "none")
    /\ UNCHANGED <<running, connected_clients, on, parser, MCAP_AVAILABLE, started,
                   stop_pc, stops, resets, writer, written, log>>
    /\ UNCHANGED <<bleVars, finish_calls, msg, result, loopq, pending_meta, start_pc>>

\* _on_disconnect on the network thread: the broker connection is gone; the
\* callback prints a line.
MQTTOnDisconnect ==
    /\ listening
    /\ listening' = FALSE
    /\ conn' = [t \in Conns |-> IF conn[t].pc = "open"
                                THEN [conn[t] EXCEPT !.pc = "closed"] ELSE conn[t]]
    /\ UNCHANGED <<running, bytes_received, messages_received, connected_clients, on,
                   parser, MCAP_AVAILABLE, started, stop_pc, stops, resets, writer,
                   written, log, units, unit_bytes>>
    /\ UNCHANGED <<bleVars, finish_calls, msg, result, loopq, pending_meta, start_pc>>

\* MQTTArvosServer.stop(): running is cleared and, if there is a client, its
\* network thread is stopped and it disconnects from the broker.
MQTTStop ==
    /\ stops < MaxStops
    /\ stops' = stops + 1
    /\ running' = FALSE
    /\ listening' = FALSE
    /\ conn' = [t \in Conns |-> IF conn[t].pc = "open"
                                THEN [conn[t] EXCEPT !.pc = "closed"] ELSE conn[t]]
    /\ UNCHANGED <<bytes_received, messages_received, connected_clients, on, parser,
                   MCAP_AVAILABLE, started, stop_pc, resets, writer, written, log,
                   units, unit_bytes>>
    /\ UNCHANGED <<bleVars, finish_calls, msg, result, loopq, pending_meta, start_pc>>

InitMQTT == BLEInit /\ MQTTInit

NextMQTT ==
    \/ \E slot \in {"on_connect", "on_disconnect"}, style \in Styles :
           AssignCallback(slot, style)
    \/ AssignCallback("on_error", "sync")
    \/ MQTTStart
    \/ MQTTOnConnect
    \/ \E t \in Topics : \E u \in TopicUnits(t) : MQTTOnMessage(t, u)
    \/ MQTTOnDisconnect
    \/ reset_statistics
    \/ MQTTStop

SpecMQTT == InitMQTT /\ [][NextMQTT]_vars

(***************************************************************************)
(* MQTTArvosServer of the examples (examples/python/arvos/servers/         *)
(* mqtt_server.py)                                                         *)
(***************************************************************************)
\* MQTTArvosServer.__init__: the paho client and the parser are created, the
\* parser's slots are copies of the server's, all still None; _loop_task is
\* None.
ExampleMQTTInit ==
    /\ BaseInit
    /\ AdapterInit
    /\ parser = configure_callbacks
    /\ MCAP_AVAILABLE = TRUE

\* _loop_task is set once start() has created the task that runs _run, and
\* nothing sets it back to None but a stop() that runs to its last line.
loop_task_set == start_pc \in {"waiting", "returned"}

\* start() up to its wait: running is set, then the client connects to the
\* broker in the executor. A refused connection raises out of start(). Else
\* the network thread is started and start() awaits the task that runs _run.
ExampleMQTTStart ==
    /\ ~started
    /\ started' = TRUE
    /\ running' = TRUE
    /\ \E connected \in BOOLEAN :
           /\ listening' = connected
           /\ start_pc' = IF connected THEN "waiting" ELSE "raised"
    /\ UNCHANGED <<bytes_received, messages_received, connected_clients, on, parser,
                   MCAP_AVAILABLE, stop_pc, stops, resets, writer, written, conn, log,
                   units, unit_bytes>>
    /\ UNCHANGED <<bleVars, finish_calls, msg, result, loopq, pending_meta>>

\* _on_message on the network thread for a message of topic t: the coroutine
\* _handle_message_async(msg) is created, then asyncio.get_event_loop() raises
\* RuntimeError, as the network thread has no event loop. The coroutine never
\* runs: nothing is counted and nothing is dispatched. The exception leaves
\* the callback; the paho version decides whether its thread survives.
ExampleMQTTOnMessage(t, u) ==
    /\ listening
    /\ units < MaxUnits
    /\ units' = units + 1
    /\ unit_bytes' = unit_bytes + u.size
    /\ conn' = [conn EXCEPT ![t].pc = "open", ![t].cur = u, ![t].recv = @ + 1,
                            ![t].hist = Append(@, decode(u))]
    /\ listening' \in BOOLEAN
    /\ UNCHANGED <<running, bytes_received, messages_received, connected_clients, on,
                   parser, MCAP_AVAILABLE, started, stop_pc, stops, resets, writer,
                   written, log>>
    /\ UNCHANGED <<bleVars, finish_calls, msg, result, loopq, pending_meta, start_pc>>

\* stop(): running is cleared, the network thread is stopped and the client
\* disconnects. If _loop_task is set it is cancelled, which lets the pending
\* start() return, and the next line names contextlib, which the module never
\* imports: NameError leaves stop() and _loop_task is not reset. stop_pc
\* records how the call ended.
ExampleMQTTStop ==
    /\ stops < MaxStops
    /\ stops' = stops + 1
    /\ running' = FALSE
    /\ listening' = FALSE
    /\ conn' = [t \in Conns |-> IF conn[t].pc = "open"
                                THEN [conn[t] EXCEPT !.pc = "closed"] ELSE conn[t]]
    /\ IF loop_task_set
       THEN /\ start_pc' = "returned"
            /\ stop_pc' = "raised"
       ELSE /\ stop_pc' = "idle"
            /\ UNCHANGED start_pc
    /\ UNCHANGED <<bytes_received, messages_received, connected_clients, on, parser,
                   MCAP_AVAILABLE, started, resets, writer, written, log, units,
                   unit_bytes>>
    /\ UNCHANGED <<bleVars, finish_calls, msg, result, loopq, pending_meta>>

InitExampleMQTT == BLEInit /\ ExampleMQTTInit

NextExampleMQTT ==
    \/ \E slot \in {"on_imu", "on_error"}, style \in Styles :
           AssignCallback(slot, style)
    \/ ExampleMQTTStart
    \/ \E t \in Topics : \E u \in TopicUnits(t) : ExampleMQTTOnMessage(t, u)
    \/ ExampleMQTTStop

SpecExampleMQTT == InitExampleMQTT /\ [][NextExampleMQTT]_vars

(***************************************************************************)
(* Claims on BLEBuffer                                                     *)
(***************************************************************************)
\* C5: N payloads, each framed as a 4-byte little-endian length header plus
\* the payload, concatenated and fed in chunks cut at any byte boundary, come
\* out of feed as exactly the N payloads, in order and byte-identical: the
\* payloads returned so far are always a prefix of the ones sent, and once
\* the whole wire has been fed they are all of them and nothing is retained.
C5_Reassembly ==
    /\ Len(messages) <= Len(sent)
    /\ messages = SubSeq(sent, 1, Len(messages))
    /\ (stream = wire => (messages = sent /\ buffer = <<>>))

\* C5 witness: two frames with non-empty payloads were fed completely, with a
\* chunk boundary inside a header on the way, and both came out.
C5_Witness ==
    /\ Len(sent) = 2
    /\ Len(sent[1]) > 0
    /\ Len(sent[2]) > 0
    /\ stream = wire
    /\ midHeader
    /\ Len(messages) = 2

\* C6: feed is independent of chunking: whatever the chunks were, the
\* payloads returned over all calls and the retained buffer are those of one
\* feed call with the whole byte sequence on a fresh buffer; and a call with
\* an empty chunk returns nothing and leaves the retained buffer unchanged.
C6_ChunkIndependent ==
    /\ <<buffer, messages>> = feed(<<>>, stream)
    /\ (lastChunk = <<>> => (lastRet = <<>> /\ buffer = lastBuf))

\* C6 witness: bytes holding two complete frames and a partial third were fed
\* in more than one chunk, the last one empty, on a non-empty retained buffer.
C6_Witness ==
    /\ Len(messages) = 2
    /\ Len(buffer) > 0
    /\ lastChunk = <<>>
    /\ midHeader
    /\ Len(stream) = MaxStream

\* C7: the bytes retained between calls never exceed 4 plus the configured
\* maximum frame length (feed reports a header that declares more).
C7_BoundedRetention == Len(buffer) <= 4 + MaxFrameLen

(***************************************************************************)
(* Claims on the statistics counters                                       *)
(***************************************************************************)
\* C8: for every message unit an adapter receives, messages_received grows
\* by exactly 1 and bytes_received by exactly the unit's payload length,
\* whether or not the unit decodes.
C8_CountedPerUnit ==
    [][units' = units + 1 =>
         /\ messages_received' = messages_received + 1
         /\ bytes_received' = bytes_received + (unit_bytes' - unit_bytes)]_vars

\* C9: messages_received and bytes_received are monotonic: no step of the
\* adapter takes either counter below the value it held before.
C9_Monotonic ==
    [][/\ messages_received' >= messages_received
       /\ bytes_received' >= bytes_received]_vars

\* C10: counter updates of concurrent connections are atomic: whenever no
\* unit is being processed, messages_received is the number of units
\* received and bytes_received the sum of their sizes.
C10_NoLostUpdate ==
    (\A c \in Conns : conn[c].pc \in {"idle", "iter", "closed"}) =>
        /\ messages_received = units
        /\ bytes_received = unit_bytes

(***************************************************************************)
(* Claims on sessions and dispatch                                         *)
(***************************************************************************)
\* The positions in log of the calls of the callback in slot for connection c.
CallsAt(slot, c) == {i \in DOMAIN log : log[i].cb = slot /\ log[i].conn = c}

\* The positions in log of the sensor-kind handler calls for connection c.
SensorCallsAt(c) == {i \in DOMAIN log : log[i].cb \in SensorSlots /\ log[i].conn = c}

\* The unit indices of the calls of slot for connection c, in call order.
HandledUnits(slot, c) ==
    LET calls == SelectSeq(log, LAMBDA e : e.cb = slot /\ e.conn = c)
    IN [i \in 1..Len(calls) |-> calls[i].unit]

\* The indices of the units of kind k received on connection c, in arrival order.
ReceivedUnits(k, c) ==
    SelectSeq([i \in 1..Len(conn[c].hist) |-> i], LAMBDA i : conn[c].hist[i] = k)

\* C1: a text unit that is a valid JSON envelope with a recognized
\* sensorType, received by a started adapter, invokes the handler registered
\* on the adapter for that sensorType exactly once and no other sensor-kind
\* handler: once no unit of a connection is in flight, each registered
\* handler has been called exactly once per unit of its kind, and every
\* sensor-kind call is the one of its unit's kind.
C1_DispatchExactlyOnce ==
    \A c \in Conns :
        conn[c].pc # "wait_result" =>
            /\ \A k \in SensorKinds :
                   on[SlotOf[k]] # "none" =>
                       HandledUnits(SlotOf[k], c) = ReceivedUnits(k, c)
            /\ \A i \in SensorCallsAt(c) :
                   /\ log[i].unit \in 1..conn[c].recv
                   /\ conn[c].hist[log[i].unit] \in SensorKinds
                   /\ log[i].cb = SlotOf[conn[c].hist[log[i].unit]]

\* C2: on a connection-oriented adapter the connect callback of a connection
\* is invoked exactly once, before any sensor-kind handler is invoked for a
\* record received on that connection.
C2_ConnectOnceFirst ==
    \A c \in Conns :
        (conn[c].pc # "idle" /\ on["on_connect"] # "none") =>
            /\ Cardinality(CallsAt("on_connect", c)) = 1
            /\ \A i \in CallsAt("on_connect", c), j \in SensorCallsAt(c) : i < j

\* C3: when a connection has ended, the disconnect callback has been invoked
\* exactly once for it, after every sensor-kind handler invocation for the
\* records received on it; it is never invoked more than once.
C3_DisconnectOnceLast ==
    \A c \in Conns :
        on["on_disconnect"] # "none" =>
            /\ Cardinality(CallsAt("on_disconnect", c)) <= 1
            /\ conn[c].pc = "closed" =>
                  /\ Cardinality(CallsAt("on_disconnect", c)) = 1
                  /\ \A i \in CallsAt("on_disconnect", c), j \in SensorCallsAt(c) :
                         j < i

\* C4: the records of one kind received on one connection are delivered to
\* that kind's handler in arrival order: once the connection has ended, the
\* handler has been invoked exactly once per such record, in the order of
\* arrival.
C4_ArrivalOrder ==
    \A c \in Conns, k \in SensorKinds :
        (conn[c].pc = "closed" /\ on[SlotOf[k]] # "none") =>
            HandledUnits(SlotOf[k], c) = ReceivedUnits(k, c)

(***************************************************************************)
(* Claims on callbacks: errors, styles, threads                            *)
(***************************************************************************)
\* The connections for which some callback call has raised.
RaisedOn == {c \in Conns : \E i \in DOMAIN log :
                 log[i].conn = c /\ Raises(on[log[i].cb])}

\* C12: an exception raised by a user callback never propagates into the
\* adapter's read loop: after a callback has raised on a connection, the
\* adapter goes on with that connection, and once the connection has ended
\* its disconnect callback has been fired, exactly once.
C12_CallbackErrorContained ==
    \A c \in RaisedOn :
        (conn[c].pc = "closed" /\ on["on_disconnect"] # "none") =>
            Cardinality(CallsAt("on_disconnect", c)) = 1

\* C14: a registered callback of either style is invoked exactly once per
\* event and an unset slot not at all: a connection that has been opened
\* has one connect call if on_connect is set, else none, and a connection
\* that has ended has one disconnect call if on_disconnect is set, else none.
C14_EitherStyleOnce ==
    \A c \in Conns :
        /\ conn[c].pc # "idle" =>
               Cardinality(CallsAt("on_connect", c)) =
                   (IF on["on_connect"] = "none" THEN 0 ELSE 1)
        /\ conn[c].pc = "closed" =>
               Cardinality(CallsAt("on_disconnect", c)) =
                   (IF on["on_disconnect"] = "none" THEN 0 ELSE 1)

\* C16: when the transport delivers a message or a connection event on a
\* thread other than the adapter's event-loop thread, every user callback
\* it causes runs in the adapter's event loop, never on the foreign thread.
C16_HomeLoopOnly == \A i \in DOMAIN log : log[i].thread = "loop"

\* C18: every binary camera unit an adapter receives yields exactly one
\* record delivered to the camera handler, none is dropped: once a
\* connection has ended, a registered camera handler has been invoked once
\* for each camera frame received on it.
C18_BinaryDelivered ==
    \A c \in Conns :
        (conn[c].pc = "closed" /\ on["on_camera"] # "none") =>
            Len(HandledUnits("on_camera", c)) = Len(ReceivedUnits("camera", c))

\* C13: when a registered handler raises while an error handler is
\* registered, the failure is delivered to on_error as an Error record: a
\* connection on which a callback has raised has, once it has ended, an
\* on_error call.
C13_HandlerErrorReported ==
    \A c \in RaisedOn :
        (conn[c].pc = "closed" /\ on["on_error"] # "none") =>
            CallsAt("on_error", c) # {}

C11_MalformedTelemetry ==
    [][\A c \in Conns :
          (/\ conn[c].pc = "idle"
           /\ conn'[c].pc = "closed"
           /\ conn'[c].cur.type = "text"
           /\ conn'[c].cur.json = "malformed") =>
              /\ conn'[c].status \in 400..499
              /\ messages_received' = messages_received + 1
              /\ log' = log]_vars

\* C19: on a unary-request adapter every request is bracketed: once the
\* request is over and nothing is left on the event loop, its connect
\* callback has fired exactly once, before any record of the request was
\* dispatched, and its disconnect callback exactly once, after it, whatever
\* the status of the response.
C19_RequestBracketed ==
    \A c \in Conns :
        (conn[c].pc = "closed" /\ loopq = <<>>) =>
            /\ on["on_connect"] # "none" =>
                   /\ Cardinality(CallsAt("on_connect", c)) = 1
                   /\ \A i \in CallsAt("on_connect", c), j \in SensorCallsAt(c) : i < j
            /\ on["on_disconnect"] # "none" =>
                   /\ Cardinality(CallsAt("on_disconnect", c)) = 1
                   /\ \A i \in CallsAt("on_disconnect", c), j \in SensorCallsAt(c) :
                          j < i

\* C17: a binary unit is paired only with the metadata of its own
\* connection: the metadata given to a binary unit is the default (none) or
\* was sent on the connection of the binary unit, never on another one.
C17_OwnMetadataOnly == \A c \in Conns : conn[c].meta \in {0, c}

\* C20: on the MQTT adapter a session is synthesized per topic: once a
\* message of a topic has been received the connect callback has fired
\* exactly once for that topic, and once a broker-reported disconnect or
\* stop() has ended the session the disconnect callback has fired exactly
\* once for it.
C20_TopicSession ==
    \A t \in Topics :
        /\ (conn[t].recv >= 1 /\ on["on_connect"] # "none") =>
               Cardinality(CallsAt("on_connect", t)) = 1
        /\ (conn[t].pc = "closed" /\ on["on_disconnect"] # "none") =>
               Cardinality(CallsAt("on_disconnect", t)) = 1

\* The endpoints the HTTP adapters serve.
TelemetryPaths == {"/api/telemetry", "/api/mcap/telemetry"}
BinaryPaths == {"/api/binary", "/api/mcap/binary"}
HealthPaths == {"/api/health", "/api/mcap/health"}

\* C21: on the HTTP-style adapters an answered telemetry POST has status 200
\* when its body is parseable JSON and 400 when it is not, an answered binary
\* POST has status 200 and an answered health GET has status 200.
C21_StatusContract ==
    \A c \in Conns :
        conn[c].pc = "closed" =>
            /\ (conn[c].method = "POST" /\ conn[c].path \in TelemetryPaths)
                   => conn[c].status = IF conn[c].cur.json = "malformed"
                                       THEN 400 ELSE 200
            /\ (conn[c].method = "POST" /\ conn[c].path \in BinaryPaths)
                   => conn[c].status = 200
            /\ (conn[c].method = "GET" /\ conn[c].path \in HealthPaths)
                   => conn[c].status = 200

\* The pair of method and path is an endpoint the HTTP adapters serve.
Served(method, path) ==
    \/ method = "POST" /\ path \in TelemetryPaths \cup BinaryPaths
    \/ method = "GET" /\ path \in HealthPaths

\* C22: a request whose method and path are not a served endpoint is answered
\* 404 or 405, leaves messages_received and bytes_received unchanged and
\* invokes no handler.
C22_UnservedRejected ==
    [][\A c \in Conns :
           (/\ conn[c].pc = "idle"
            /\ conn'[c].pc # "idle"
            /\ ~Served(conn'[c].method, conn'[c].path))
               => /\ conn'[c].status \in {404, 405}
                  /\ messages_received' = messages_received
                  /\ bytes_received' = bytes_received
                  /\ log' = log]_vars

\* C23: stop() on an instance that was never started, and a second stop()
\* after a first one, return without raising and leave connected_clients at 0.
C23_StopIdempotent ==
    (stops >= 1 /\ (~started \/ stops >= 2))
        => (stop_pc # "raised" /\ connected_clients = 0)

\* C24: a start() call that is still waiting when a stop() call made after it
\* has completed eventually returns.
C24_StartReturnsOnStop ==
    (start_pc = "waiting" /\ ~running /\ stop_pc = "idle") ~> (start_pc # "waiting")

\* A stop() call made after start() has returned and no stop() is in progress.
Stopped == started /\ ~running /\ stop_pc = "idle"

\* C25: once stop() has returned the listening resource is released and stays
\* so, no new connection is accepted, and no connect callback and no sensor
\* handler is invoked.
C25_NothingAfterStop ==
    [][Stopped =>
           /\ ~listening /\ ~listening'
           /\ \A c \in Conns : conn[c].pc = "idle" => conn'[c].pc = "idle"
           /\ \A i \in (Len(log) + 1)..Len(log') :
                  log'[i].cb \notin SensorSlots \cup {"on_connect"}]_vars

\* A stopped server with a connect callback, one stream that was opened
\* before stop() and is still open, and a client that has not connected yet.
C25_Witness ==
    /\ Stopped
    /\ on["on_connect"] # "none"
    /\ \E c \in Conns : conn[c].pc = "iter" /\ CallsAt("on_connect", c) # {}
    /\ \E c \in Conns : conn[c].pc = "idle"

\* C26: when stop() has been called while start() was running and the task
\* of start() is then cancelled and awaited, nothing is raised but the task's
\* cancellation, and running is False afterwards.
C26_StopThenCancel ==
    [][(/\ \/ start_pc = "ended"
           \/ start_pc = "waiting" /\ stops >= 1 /\ stop_pc = "idle" /\ ~listening
        /\ start_pc' \in {"cancelled", "closing"})
           => (running' = FALSE /\ stop_pc' # "raised")]_vars

\* start() was ended by a stop() call, and its task was then cancelled.
C26_Witness == start_pc = "cancelled" /\ stops >= 1 /\ ~running /\ ~listening

\* C27: on HTTPArvosServer, with a handler assigned to a sensor slot after
\* construction and before start(), every valid telemetry envelope of that
\* kind that has been answered has invoked the handler exactly once.
C27_AssignedHandlerInvoked ==
    \A c \in Conns :
        (/\ conn[c].pc = "closed"
         /\ conn[c].method = "POST"
         /\ conn[c].path = "/api/telemetry"
         /\ conn[c].cur.json = "object"
         /\ conn[c].cur.sensorType \in {"imu", "gps"}
         /\ on[SlotOf[conn[c].cur.sensorType]] # "none")
            => Cardinality(CallsAt(SlotOf[conn[c].cur.sensorType], c)) = 1

\* C28: on MCAPHTTPServer, with on_gps assigned before start(), a valid GPS
\* envelope posted to /api/mcap/telemetry is answered 200 and on_gps is
\* invoked at least once for it.
C28_GpsPostHandled ==
    \A c \in Conns :
        (/\ conn[c].pc = "closed"
         /\ conn[c].method = "POST"
         /\ conn[c].path = "/api/mcap/telemetry"
         /\ conn[c].cur = TextUnit("object", "gps", 2)
         /\ on["on_gps"] # "none")
            => (conn[c].status = 200 /\ CallsAt("on_gps", c) # {})

\* The units that fail to decode: text that is no JSON, JSON that is no
\* object, and an object whose sensorType is not known.
UndecodableUnits ==
    {TextUnit("malformed", "", 1), TextUnit("nonobject", "", 1),
     TextUnit("object", "bogus", 2)}

\* C29: a unit that fails to decode is skipped without ending the connection:
\* after the adapter has read it, the connection is still open for the next
\* unit.
C29_DecodeFailureSkipped ==
    [][\A c \in Conns : \A u \in UndecodableUnits :
           MCAPMessage(c, u) => (conn'[c].pc = "open" /\ ~conn'[c].eof)]_vars

\* C30: when start() has failed with a transport error, raised out of
\* start(), the adapter is left with running = False.
C30_FailedStartNotRunning == start_pc = "raised" => running = FALSE

\* The optional fields of a payload and the keys they are converted to.
OptionalKeys ==
    [imu |-> {<<"angular_velocity", "angularVelocity">>,
              <<"linear_acceleration", "linearAcceleration">>,
              <<"gravity", "gravity">>},
     gps |-> {<<"speed", "speed">>, <<"course", "course">>},
     pose |-> {<<"position", "position">>}]

\* C31: an optional field that is absent from the message is absent from the
\* decoded form: the dictionary has no value under its key.
C31_AbsentStaysAbsent ==
    (result # NoResult /\ msg.sensorType \in DOMAIN OptionalKeys) =>
        \A fk \in OptionalKeys[msg.sensorType] :
            msg.body[fk[1]] = <<>> => fk[2] \notin DOMAIN result

\* Telemetry records that decode: envelopes of a known sensor kind.
ValidRecords ==
    {TextUnit("object", "imu", 3), TextUnit("object", "gps", 2), CameraMetadata}

\* C32: every telemetry record received while the recorder is active is
\* written exactly once, to the channel of its own kind, which its first
\* use creates.
C32_RecordedOnce ==
    [][\A c \in Conns : \A u \in ValidRecords :
           (handle_telemetry(c, u) /\ writer = "started") =>
               written' = Append(written, [channel |-> u.sensorType, conn |-> c,
                                           unit |-> 1, to |-> "started"])]_vars

\* The streams of the grpc adapter for which StreamSensors has counted the
\* connect and has not yet counted the disconnect.
CountedConns ==
    {c \in Conns : conn[c].pc \in {"iter", "mr_load", "mr_store", "br_load",
                                   "br_store", "dispatch", "fin_load", "fin_store"}}

\* C33: connected_clients is never negative and equals the number of
\* connections whose connect is counted and whose disconnect is not; once
\* every connection has ended it is 0 again.
C33_ClientsCounted ==
    /\ connected_clients >= 0
    /\ connected_clients = Cardinality(CountedConns)
    /\ (\A c \in Conns : conn[c].pc = "closed") => connected_clients = 0

\* The bytes that feed consumed for the payloads ps: for each payload its
\* 4-byte header, as the stream carried it, and the payload.
RECURSIVE Consumed(_)
Consumed(ps) ==
    IF ps = <<>> THEN <<>>
    ELSE to_bytes_little(Len(Head(ps))) \o Head(ps) \o Consumed(Tail(ps))

\* C34: after every return of feed the retained buffer holds no complete
\* frame (it is shorter than 4 bytes, or shorter than 4 plus the length its
\* first 4 bytes declare), and the bytes fed so far are, in stream order, the
\* consumed headers and returned payloads followed by the retained buffer.
C34_NoFrameRetained ==
    /\ \/ Len(buffer) < 4
       \/ Len(buffer) < 4 + from_bytes_little(SubSeq(buffer, 1, 4))
    /\ stream = Consumed(messages) \o buffer

\* C34 witness: the last call returned a payload, one byte long, and left a
\* whole header of an incomplete frame in the buffer.
C34_Witness ==
    /\ lastRet # <<>>
    /\ Len(messages) = 1
    /\ Len(messages[1]) = 1
    /\ Len(buffer) = 4
    /\ Len(stream) = MaxStream

\* C35: the writer of the MCAP adapters receives no add_message call after
\* finish() was called on it, and finish() is called at most once on a
\* started writer, whatever the sequence of stop() calls.
C35_FinishOnce ==
    /\ \A i \in DOMAIN written : written[i].to = "started"
    /\ finish_calls <= 1

\* The coroutines of request c waiting on the event loop.
Scheduled(c) == {loopq[i].what : i \in {j \in DOMAIN loopq : loopq[j].conn = c}}

\* C36: the 200 response to a telemetry or binary POST is written only after
\* the decode and dispatch of its body have completed on the event loop; the
\* disconnect callback of a request is scheduled only after its response was
\* written; and every accepted POST gets a response in the end while the
\* event loop keeps running.
C36_ResponseAfterDispatch ==
    /\ [](\A c \in Conns :
            /\ (conn[c].pc = "closed" /\ conn[c].method = "POST" /\ conn[c].status = 200)
                   => Scheduled(c) \cap {"json", "binary"} = {}
            /\ ("on_disconnect" \in Scheduled(c) \/ CallsAt("on_disconnect", c) # {})
                   => conn[c].pc = "closed")
    /\ \A c \in Conns : (conn[c].pc = "wait_result") ~> (conn[c].pc = "closed")

\* C36 witness: the POST of request 1 to the binary path was answered 200
\* after its body went through the loop (on_message was called for it) and
\* its disconnect callback has run, while request 2 waits for its result and
\* stop() has been called.
C36_Witness ==
    /\ conn[1].pc = "closed"
    /\ conn[1].path = "/api/binary"
    /\ conn[1].status = 200
    /\ CallsAt("on_message", 1) # {}
    /\ CallsAt("on_disconnect", 1) # {}
    /\ conn[2].pc = "wait_result"
    /\ stops >= 1

\* The sensorType the decoded form has for each payload field of a
\* SensorMessage.
TypeOfField ==
    [imu |-> "imu", gps |-> "gps", pose |-> "pose", camera_metadata |-> "camera",
     depth_metadata |-> "depth", handshake |-> "handshake", status |-> "status",
     error |-> "error"]

\* C37: _protobuf_to_dict gives every SensorMessage one sensorType, fixed by
\* the payload field that is set, and the message's timestamp as timestampNs;
\* a message with no payload field set gets sensorType "unknown", after which
\* the stream goes on and no sensor-kind handler is invoked.
C37_TypeFromPayloadField ==
    result # NoResult =>
        /\ result.timestampNs = msg.timestamp_ns
        /\ result.sensorType = IF msg.sensorType \in DOMAIN TypeOfField
                               THEN TypeOfField[msg.sensorType] ELSE "unknown"
        /\ msg.sensorType = "" =>
               /\ result.sensorType = "unknown"
               /\ conn[1].pc \in {"dispatch", "iter"}
               /\ \A i \in DOMAIN log : log[i].cb \notin SensorSlots

\* C37 witness: a message with no payload field set and timestamp 2 was
\* converted and dispatched on a server with an imu handler and an error
\* handler, and the stream waits for its next message.
C37_Witness ==
    /\ msg = SensorMessage("", 2, <<>>)
    /\ result.sensorType = "unknown"
    /\ result.timestampNs = 2
    /\ on["on_imu"] = "sync"
    /\ on["on_error"] = "sync"
    /\ conn[1].pc = "iter"

=============================================================================
